---- MODULE Spec2Model ----
(***************************************************************************)
(* Live-link WebSocket protocol engine of NitroCore                         *)
(* (src/server/routes/api/live.ws.ts with its crypto, keyring and session   *)
(* store helpers): challenge-response handshake against a versioned         *)
(* keyring, then the stateful telemetry validator.                          *)
(*                                                                          *)
(* Representation.  An optional JavaScript value (undefined or a value) is  *)
(* a sequence of length 0 or 1.  Strings that carry base64 are represented  *)
(* by what the code reads of them: whether they are empty and how many      *)
(* bytes they decode to.  A ciphertext is symbolic: for every key, either   *)
(* the cipher raises or it yields a plaintext.  Percent values are integers *)
(* and times are integer milliseconds.                                      *)
(***************************************************************************)
EXTENDS Integers, Sequences, FiniteSets, TLC

VARIABLES
    keyring,    \* the module-level keyring, built once at start
    conn,       \* transport state of each connection
    context,    \* peer.context.liveLink of each connection
    sessions,   \* the session store: a map from peer id to session
    timer,      \* the runtime's handshake timer of each connection
    sent,       \* what the server sent on each connection, in order
    closes,     \* the close calls made on each connection, in order
    nmsg,       \* number of inbound messages handled per connection
    last        \* the handler invocation that produced this state

vars == <<keyring, conn, context, sessions, timer, sent, closes, nmsg, last>>

----------------------------------------------------------------------------
(* Bounds of the model *)

NumPeers == 2
MaxMsgs == 3
MaxAuthMsgs == 2
MaxKeys == 2
MaxFrames == 2
MaxSeq == 3
MaxTicks == 3
MaxPctSteps == 3

----------------------------------------------------------------------------
(* LIVE_LINK_CONFIG defaults and protocol constants *)

maxMessageBytes == 262144
maxFramesPerChunk == 600
maxPctPerSecond == 20
maxPctBurst == 5
maxAbsCoord == 10000000
maxCoordDelta == 20000
PolicyViolation == 1008
GcmTagBytes == 16
GcmIvMinBytes == 12
GcmIvMaxBytes == 32
CbcIvBytes == 16
MsPerSecond == 1000

----------------------------------------------------------------------------
(* Optional values *)

None == <<>>
Some(v) == <<v>>
IsSome(o) == Len(o) = 1
Get(o) == o[1]

----------------------------------------------------------------------------
(* Transport primitives *)

\* sendJson(peer, payload): the JSON text handed to peer.send
Msg(cmd, arg) == [cmd |-> cmd, arg |-> arg]

\* closeUnauthorized(peer, reason): peer.close(1008, reason)
CloseCall(reason) == [code |-> PolicyViolation, reason |-> reason]

----------------------------------------------------------------------------
(* Envelope codec: useLiveLinkCrypto *)

\* AuthEnvelopeSchema.parse: iv is a non-empty string; data, ciphertext and
\* tag are each absent or a non-empty string; alg is absent or a string.
parseAuthEnvelopeOk(c) ==
    /\ c.isObj
    /\ IsSome(c.iv) /\ ~Get(c.iv).empty
    /\ (IsSome(c.data) => ~Get(c.data).empty)
    /\ (IsSome(c.ciphertext) => ~Get(c.ciphertext).empty)
    /\ (IsSome(c.tag) => ~Get(c.tag).empty)

\* decodeBase64Like(value).byteLength
decodeBase64Like(str) == str.bytes

\* String.prototype.toLowerCase on the alg strings of the model
toLowerCase(a) ==
    CASE a = "AES-256-GCM" -> "aes-256-gcm"
      [] a = "AES-256-CBC" -> "aes-256-cbc"
      [] OTHER -> a

\* alg.includes("gcm") on a lower-cased alg string
includesGcm(a) == a \in {"aes-256-gcm", "gcm"}

\* wantsGcm = Boolean(envelope.tag) || alg.includes("gcm")
wantsGcm(e) ==
    \/ IsSome(e.tag)
    \/ includesGcm(toLowerCase(IF IsSome(e.alg) THEN Get(e.alg) ELSE ""))

\* decryptAes256Gcm / decryptAes256Cbc: the cipher applied to the symbolic
\* ciphertext under key; None when decipher.final() raises.
decryptCipher(ct, key) == ct.plain[key]

\* decryptAuthEnvelope(envelope, key): None when it raises, else the plaintext
decryptAuthEnvelope(e, key) ==
    LET ctOpt == IF IsSome(e.data) THEN e.data ELSE e.ciphertext IN
    IF ~IsSome(ctOpt) \/ Get(ctOpt).empty THEN None
    ELSE LET ivLen == decodeBase64Like(Get(e.iv))
             ct == Get(ctOpt)
         IN  IF wantsGcm(e)
             THEN LET tagLen == IF IsSome(e.tag)
                                THEN decodeBase64Like(Get(e.tag)) ELSE 0
                  IN  IF tagLen # GcmTagBytes THEN None
                      ELSE IF ivLen < GcmIvMinBytes \/ ivLen > GcmIvMaxBytes
                           THEN None
                      ELSE decryptCipher(ct, key)
             ELSE IF ivLen # CbcIvBytes THEN None
                  ELSE decryptCipher(ct, key)

\* LiveLinkAuthPayloadSchema.parse(JSON.parse(plaintext)): None when either
\* raises, else the payload's nonce
parseAuthPayload(plainOpt) ==
    IF ~IsSome(plainOpt) THEN None
    ELSE LET pt == Get(plainOpt) IN
         IF ~pt.json THEN None
         ELSE IF ~IsSome(pt.nonce) \/ Get(pt.nonce) = "" THEN None
         ELSE pt.nonce

\* Variant: only the byte lengths are compared (every nonce of the model has
\* the same length)
timingSafeEqualLengthOnly(a, b) == (a = "") = (b = "")

\* timingSafeEqualString(a, b): equal byte length and equal bytes
timingSafeEqualString(a, b) == a = b

----------------------------------------------------------------------------
(* Handshake controller: the key-trial loop of message() *)

\* One key of the loop at live.ws.ts:166-184: the nonce the envelope yields
\* under this key, None when the try block raised (continue).
TryKey(e, key) == parseAuthPayload(decryptAuthEnvelope(e, key))

\* Variant: a mismatched nonce is treated like a wrong key (continue)
RECURSIVE KeyTrialContinue(_, _, _, _)
KeyTrialContinue(e, kr, i, nonce) ==
    IF i > Len(kr) THEN [verdict |-> "none", version |-> "", index |-> 0]
    ELSE LET got == TryKey(e, kr[i].key) IN
         IF ~IsSome(got) \/ ~timingSafeEqualString(Get(got), nonce)
         THEN KeyTrialContinue(e, kr, i + 1, nonce)
         ELSE [verdict |-> "match", version |-> kr[i].version, index |-> i]

\* Variant: when more than one key was tried and none worked, the loop
\* ends like a nonce mismatch
RECURSIVE KeyTrialTellsCount(_, _, _, _)
KeyTrialTellsCount(e, kr, i, nonce) ==
    IF i > Len(kr)
    THEN [verdict |-> IF Len(kr) > 1 THEN "mismatch" ELSE "none",
          version |-> "", index |-> 0]
    ELSE LET got == TryKey(e, kr[i].key) IN
         IF ~IsSome(got) THEN KeyTrialTellsCount(e, kr, i + 1, nonce)
         ELSE IF ~timingSafeEqualString(Get(got), nonce)
              THEN [verdict |-> "mismatch", version |-> "", index |-> i]
              ELSE [verdict |-> "match", version |-> kr[i].version, index |-> i]

\* The for loop from keyring index i on.  verdict is "mismatch" (return
\* after closing), "match" (break with authedVersion) or "none".
RECURSIVE KeyTrial(_, _, _, _)
KeyTrial(e, kr, i, nonce) ==
    IF i > Len(kr) THEN [verdict |-> "none", version |-> "", index |-> 0]
    ELSE LET got == TryKey(e, kr[i].key) IN
         IF ~IsSome(got) THEN KeyTrial(e, kr, i + 1, nonce)
         ELSE IF ~timingSafeEqualString(Get(got), nonce)
              THEN [verdict |-> "mismatch", version |-> "", index |-> i]
              ELSE [verdict |-> "match", version |-> kr[i].version, index |-> i]

----------------------------------------------------------------------------
(* Telemetry validator: the checks of message() after authorization *)

Abs(n) == IF n < 0 THEN -n ELSE n

\* TelemetrySchema.parse(data): cmd absent or "telemetry", seq a
\* non-negative integer, current_pct a finite number, frames an array
TelemetrySchemaOk(d) ==
    /\ d.isObj
    /\ (IsSome(d.cmd) => Get(d.cmd) = "telemetry")
    /\ IsSome(d.seq) /\ Get(d.seq) >= 0
    /\ IsSome(d.current_pct)
    /\ IsSome(d.frames)

\* Variant: only a seq behind the expected one is a mismatch
SeqBehind(seq, expectedSeq) == seq < expectedSeq

\* telemetry.seq !== session.telemetry.expectedSeq
SeqMismatch(seq, expectedSeq) == seq # expectedSeq

\* dtSec <= 0 with dtSec = (now - lastAt) / 1000
InvalidTimeDelta(now, lastAt) == now - lastAt <= 0

\* Variant: the size of the change is rated, whatever its sign
PctJumpAbs(deltaPct, dtMs) ==
    Abs(deltaPct) * MsPerSecond > maxPctBurst * MsPerSecond + maxPctPerSecond * dtMs

\* Variant: a change equal to the allowance is a jump already
PctJumpAtBound(deltaPct, dtMs) ==
    /\ deltaPct >= 0
    /\ deltaPct * MsPerSecond >= maxPctBurst * MsPerSecond + maxPctPerSecond * dtMs

\* deltaPct >= 0 && deltaPct > maxPctBurst + maxPctPerSecond * dtSec,
\* with both sides of the comparison multiplied by 1000
PctJump(deltaPct, dtMs) ==
    /\ deltaPct >= 0
    /\ deltaPct * MsPerSecond > maxPctBurst * MsPerSecond + maxPctPerSecond * dtMs

\* telemetry.frames.length > maxFramesPerChunk
TooManyFrames(n) == n > maxFramesPerChunk

\* typeof v === "number" && Number.isFinite(v)
IsFiniteNumber(c) == c.t = "num"

\* Variant: a coordinate on the bound is out of bounds already
ImpossibleCoordinatesAtBound(x, y) == Abs(x) >= maxAbsCoord \/ Abs(y) >= maxAbsCoord

\* Math.abs(x) > maxAbsCoord || Math.abs(y) > maxAbsCoord
ImpossibleCoordinates(x, y) == Abs(x) > maxAbsCoord \/ Abs(y) > maxAbsCoord

\* dx > maxCoordDelta || dy > maxCoordDelta against lastCoord
ImpossibleMovement(x, y, lastCoord) ==
    \/ Abs(x - lastCoord.x) > maxCoordDelta
    \/ Abs(y - lastCoord.y) > maxCoordDelta

\* Variant: every frame of a batch is compared with the baseline the batch
\* started with (base); the baseline is still written frame by frame (cur)
RECURSIVE FrameLoopAgainst(_, _, _, _)
FrameLoopAgainst(frames, i, base, cur) ==
    IF i > Len(frames) THEN [coord |-> cur, reason |-> "", at |-> 0]
    ELSE LET f == frames[i] IN
         IF ~f.isObj THEN FrameLoopAgainst(frames, i + 1, base, cur)
         ELSE IF f.x.t = "undef" \/ f.y.t = "undef"
              THEN FrameLoopAgainst(frames, i + 1, base, cur)
         ELSE IF f.x.t # "num" \/ f.y.t # "num"
              THEN [coord |-> cur, reason |-> "Invalid coordinates", at |-> i]
         ELSE IF Abs(f.x.v) > maxAbsCoord \/ Abs(f.y.v) > maxAbsCoord
              THEN [coord |-> cur, reason |-> "Impossible coordinates", at |-> i]
         ELSE IF /\ IsSome(base)
                 /\ \/ Abs(f.x.v - Get(base).x) > maxCoordDelta
                    \/ Abs(f.y.v - Get(base).y) > maxCoordDelta
              THEN [coord |-> cur, reason |-> "Impossible movement", at |-> i]
         ELSE FrameLoopAgainst(frames, i + 1, base, Some([x |-> f.x.v, y |-> f.y.v]))
FrameLoopBatchBaseline(frames, i, lastCoord) ==
    FrameLoopAgainst(frames, i, lastCoord, lastCoord)

\* The per-frame loop from frame i on, with session.telemetry.lastCoord as
\* written so far.  reason is "" when the loop ran to its end, else the
\* reason of the kill; at is the index of the frame that was killed.
RECURSIVE FrameLoop(_, _, _)
FrameLoop(frames, i, lastCoord) ==
    IF i > Len(frames) THEN [coord |-> lastCoord, reason |-> "", at |-> 0]
    ELSE LET f == frames[i] IN
         IF ~f.isObj THEN FrameLoop(frames, i + 1, lastCoord)
         ELSE IF f.x.t = "undef" \/ f.y.t = "undef"
              THEN FrameLoop(frames, i + 1, lastCoord)
         ELSE IF ~IsFiniteNumber(f.x) \/ ~IsFiniteNumber(f.y)
              THEN [coord |-> lastCoord, reason |-> "Invalid coordinates", at |-> i]
         ELSE IF ImpossibleCoordinates(f.x.v, f.y.v)
              THEN [coord |-> lastCoord, reason |-> "Impossible coordinates", at |-> i]
         ELSE IF IsSome(lastCoord) /\ ImpossibleMovement(f.x.v, f.y.v, Get(lastCoord))
              THEN [coord |-> lastCoord, reason |-> "Impossible movement", at |-> i]
         ELSE FrameLoop(frames, i + 1, Some([x |-> f.x.v, y |-> f.y.v]))

----------------------------------------------------------------------------
(* Effects of one handler invocation on its own connection:                *)
(*   sess   the session object after the handler                           *)
(*   out    the messages handed to peer.send, in order                     *)
(*   cls    the peer.close calls, in order                                 *)
(*   clear  whether clearTimeout was called on the handshake timer         *)
(*   ctx    whether peer.context.liveLink.authorized was set               *)
(*   res    the branch the handler left by                                 *)
(*   at     the index of the frame the per-frame loop killed at, else 0    *)
(*   threw  whether the handler ended by an uncaught exception             *)

Effect(sess, out, cls, res) ==
    [sess |-> sess, out |-> out, cls |-> cls, clear |-> FALSE, ctx |-> FALSE,
     res |-> res, at |-> 0, threw |-> FALSE]

\* closeUnauthorized(peer, reason) and return
Reject(sess, reason) == Effect(sess, <<>>, <<CloseCall(reason)>>, reason)

\* Variant: a kill also puts the session back to Challenging
killAndReset(sess, reason, sendRaises) ==
    Effect([sess EXCEPT !.auth.state = "challenging"], <<Msg("kill", "")>>,
           <<CloseCall(reason)>>, reason)

\* killAndClose(peer, reason) and return.  When peer.send raises, the
\* exception leaves killAndClose before closeUnauthorized is reached.
killAndClose(sess, reason, sendRaises) ==
    IF sendRaises
    THEN [Effect(sess, <<>>, <<>>, reason) EXCEPT !.threw = TRUE]
    ELSE Effect(sess, <<Msg("kill", "")>>, <<CloseCall(reason)>>, reason)

\* Variant: the reply is sent and the connection closed as well
ReplyAndClose(sess, msg, res, sendRaises) ==
    Effect(sess, <<msg>>, <<CloseCall(res)>>, res)

\* sendJson(peer, msg) as the last statement of a handler
Reply(sess, msg, res, sendRaises) ==
    IF sendRaises
    THEN [Effect(sess, <<>>, <<>>, res) EXCEPT !.threw = TRUE]
    ELSE Effect(sess, <<msg>>, <<>>, res)

----------------------------------------------------------------------------
(* message(peer, message): the branches after the session lookup *)

\* live.ws.ts:150-153: the payload sub-object when the message has one,
\* else the message itself
EnvelopeCandidate(d) == IF d.isObj /\ IsSome(d.payload) THEN Get(d.payload) ELSE d

\* Variant: the promotion leaves the handshake timer running
HandshakeBranchKeepsTimer(sess, d, kr, sendRaises) ==
    LET c == EnvelopeCandidate(d) IN
    IF ~parseAuthEnvelopeOk(c) THEN Reject(sess, "Bad auth envelope")
    ELSE LET t == KeyTrial(c, kr, 1, sess.auth.nonce) IN
         IF t.verdict = "mismatch" THEN Reject(sess, "Nonce mismatch")
         ELSE IF t.verdict = "none" \/ t.version = ""
              THEN Reject(sess, "Unauthorized")
         ELSE LET authed == [sess EXCEPT !.auth.state = "authorized",
                                         !.auth.version = Some(t.version)]
                  e == Reply(authed, Msg("auth_ok", t.version), "auth_ok", sendRaises)
              IN  [e EXCEPT !.ctx = TRUE]

\* live.ws.ts:149-207
HandshakeBranch(sess, d, kr, sendRaises) ==
    LET c == EnvelopeCandidate(d) IN
    IF ~parseAuthEnvelopeOk(c) THEN Reject(sess, "Bad auth envelope")
    ELSE LET t == KeyTrial(c, kr, 1, sess.auth.nonce) IN
         IF t.verdict = "mismatch" THEN Reject(sess, "Nonce mismatch")
         ELSE IF t.verdict = "none" \/ t.version = ""
              THEN Reject(sess, "Unauthorized")
         ELSE LET authed == [sess EXCEPT !.auth.state = "authorized",
                                         !.auth.version = Some(t.version),
                                         !.auth.handshakeTimer = FALSE]
                  e == Reply(authed, Msg("auth_ok", t.version), "auth_ok", sendRaises)
              IN  [e EXCEPT !.clear = sess.auth.handshakeTimer, !.ctx = TRUE]

\* live.ws.ts:209-294
TelemetryBranch(sess, d, now, sendRaises) ==
    IF ~TelemetrySchemaOk(d) THEN killAndClose(sess, "Bad telemetry", sendRaises)
    ELSE IF SeqMismatch(Get(d.seq), sess.telemetry.expectedSeq)
         THEN killAndClose(sess, "Sequence mismatch", sendRaises)
    ELSE LET s1 == [sess EXCEPT !.telemetry.expectedSeq = @ + 1]
             lastAt == sess.telemetry.lastAt
             lastPct == sess.telemetry.lastPct
             pct == Get(d.current_pct)
             rated == IsSome(lastAt) /\ IsSome(lastPct)
         IN
         IF rated /\ InvalidTimeDelta(now, Get(lastAt))
         THEN killAndClose(s1, "Invalid time delta", sendRaises)
         ELSE IF rated /\ PctJump(pct - Get(lastPct), now - Get(lastAt))
              THEN killAndClose(s1, "Speedhack (pct jump)", sendRaises)
         ELSE LET s2 == [s1 EXCEPT !.telemetry.lastAt = Some(now),
                                   !.telemetry.lastPct = Some(pct)]
                  frames == Get(d.frames)
              IN
              IF TooManyFrames(frames.pad + Len(frames.list))
              THEN killAndClose(s2, "Too many frames", sendRaises)
              ELSE LET fl == FrameLoop(frames.list, 1, s2.telemetry.lastCoord)
                       s3 == [s2 EXCEPT !.telemetry.lastCoord = fl.coord]
                   IN  IF fl.reason # ""
                       THEN [killAndClose(s3, fl.reason, sendRaises) EXCEPT !.at = fl.at]
                       ELSE Effect(s3, <<>>, <<>>, "accepted")

\* live.ws.ts:144: data && typeof data === "object" && data.cmd === "ping"
IsPing(d) == d.isObj /\ IsSome(d.cmd) /\ Get(d.cmd) = "ping"

\* Variant: a message of telemetry shape goes to the telemetry branch
\* whatever the auth state
MessageEffectByShape(sess, m, now, kr, sendRaises) ==
    IF m.size > maxMessageBytes
    THEN killAndClose(sess, "Message too large", sendRaises)
    ELSE IF ~m.parses THEN killAndClose(sess, "Invalid JSON", sendRaises)
    ELSE IF IsPing(m.data)
         THEN Reply(sess, Msg("pong", ""), "pong", sendRaises)
    ELSE IF ~TelemetrySchemaOk(m.data)
         THEN HandshakeBranch(sess, m.data, kr, sendRaises)
    ELSE TelemetryBranch(sess, m.data, now, sendRaises)

\* live.ws.ts:130-295, for a session found in the store
MessageEffect(sess, m, now, kr, sendRaises) ==
    IF m.size > maxMessageBytes
    THEN killAndClose(sess, "Message too large", sendRaises)
    ELSE IF ~m.parses THEN killAndClose(sess, "Invalid JSON", sendRaises)
    ELSE IF IsPing(m.data)
         THEN Reply(sess, Msg("pong", ""), "pong", sendRaises)
    ELSE IF sess.auth.state # "authorized"
         THEN HandshakeBranch(sess, m.data, kr, sendRaises)
    ELSE TelemetryBranch(sess, m.data, now, sendRaises)

----------------------------------------------------------------------------
(* State machine *)

Peers == 1..NumPeers

\* sessions.get(peer.id)
HasSession(p) == p \in DOMAIN sessions

\* Variant: sessions.clear()
WithoutAll(p) == <<>>

\* sessions.delete(peer.id)
Without(p) == [q \in (DOMAIN sessions) \ {p} |-> sessions[q]]

\* The session object built by open(), live.ws.ts:92-109
NewSession(nonce) ==
    [auth |-> [state |-> "challenging", nonce |-> nonce, version |-> None,
               handshakeTimer |-> TRUE],
     telemetry |-> [expectedSeq |-> 1, lastAt |-> None, lastPct |-> None,
                    lastCoord |-> None]]

\* What the transport does with the close calls of a handler: an open
\* connection starts closing; its close callback runs later.
AfterCloseCalls(c, cls) == IF cls # <<>> /\ c = "open" THEN "closing" ELSE c

\* Inbound messages handled so far, over the connections of ps
RECURSIVE Handled(_)
Handled(ps) ==
    IF ps = {} THEN 0
    ELSE LET p == CHOOSE q \in ps : TRUE IN nmsg[p] + Handled(ps \ {p})

\* The record of the handler invocation that led to the current state
Invocation(op, p, msg, now, res, at, pre, threw) ==
    [op |-> op, peer |-> p, msg |-> msg, now |-> now, res |-> res, at |-> at,
     pre |-> pre, threw |-> threw]

Init(keyrings) ==
    /\ keyring \in keyrings
    /\ conn = [p \in Peers |-> "idle"]
    /\ context = [p \in Peers |-> None]
    /\ sessions = <<>>
    /\ timer = [p \in Peers |-> "none"]
    /\ sent = [p \in Peers |-> <<>>]
    /\ closes = [p \in Peers |-> <<>>]
    /\ nmsg = [p \in Peers |-> 0]
    /\ last = Invocation("init", 0, None, 0, "", 0, None, FALSE)

\* Variant: the empty-keyring check is missing
KeyringNeverEmpty(kr) == FALSE

\* keyring.length === 0
KeyringEmpty(kr) == Len(kr) = 0

\* open(peer), live.ws.ts:83-120.  nonce is the value randomBytes returns.
Open(p, nonce, sendRaises) ==
    /\ conn[p] = "idle"
    /\ context' = [context EXCEPT ![p] = Some([nonce |-> nonce, authorized |-> FALSE])]
    /\ sessions' = (p :> NewSession(nonce)) @@ sessions
    /\ timer' = [timer EXCEPT ![p] = "pending"]
    /\ IF KeyringEmpty(keyring)
       THEN /\ sent' = sent
            /\ closes' = [closes EXCEPT ![p] = Append(@, CloseCall("Server misconfigured"))]
            /\ conn' = [conn EXCEPT ![p] = "closing"]
            /\ last' = Invocation("open", p, None, 0, "Server misconfigured", 0, None, FALSE)
       ELSE /\ sent' = [sent EXCEPT ![p] =
                           IF sendRaises THEN @ ELSE Append(@, Msg("auth_challenge", nonce))]
            /\ closes' = closes
            /\ conn' = [conn EXCEPT ![p] = "open"]
            /\ last' = Invocation("open", p, None, 0, "auth_challenge", 0, None, sendRaises)
    /\ UNCHANGED <<keyring, nmsg>>

\* message(peer, message), live.ws.ts:122-295.  now is the value Date.now()
\* returns in this invocation.
Message(p, m, now, sendRaises, maxMsgs) ==
    /\ conn[p] \in {"open", "closing"}
    /\ Handled(Peers) < maxMsgs
    /\ nmsg' = [nmsg EXCEPT ![p] = @ + 1]
    /\ IF ~HasSession(p)
       THEN /\ closes' = [closes EXCEPT ![p] = Append(@, CloseCall("No session"))]
            /\ conn' = [conn EXCEPT ![p] = AfterCloseCalls(@, <<CloseCall("No session")>>)]
            /\ last' = Invocation("message", p, Some(m), now, "No session", 0, None, FALSE)
            /\ UNCHANGED <<sessions, sent, timer, context>>
       ELSE \E e \in {MessageEffect(sessions[p], m, now, keyring, sendRaises)} :
            /\ sessions' = [sessions EXCEPT ![p] = e.sess]
            /\ sent' = [sent EXCEPT ![p] = @ \o e.out]
            /\ closes' = [closes EXCEPT ![p] = @ \o e.cls]
            /\ conn' = [conn EXCEPT ![p] = AfterCloseCalls(@, e.cls)]
            /\ timer' = [timer EXCEPT ![p] =
                            IF e.clear /\ @ = "pending" THEN "cleared" ELSE @]
            /\ context' = [context EXCEPT ![p] =
                              IF e.ctx /\ IsSome(@)
                              THEN Some([Get(@) EXCEPT !.authorized = TRUE]) ELSE @]
            /\ last' = Invocation("message", p, Some(m), now, e.res, e.at,
                                  Some(sessions[p]), e.threw)
    /\ UNCHANGED keyring

\* Variant: the guard of the callback is inverted
TimerFireIfAuthorized(p) ==
    /\ timer[p] = "pending"
    /\ timer' = [timer EXCEPT ![p] = "fired"]
    /\ IF sessions[p].auth.state = "authorized"
       THEN /\ closes' = [closes EXCEPT ![p] = Append(@, CloseCall("Auth timeout"))]
            /\ conn' = [conn EXCEPT ![p] = AfterCloseCalls(@, <<CloseCall("Auth timeout")>>)]
            /\ last' = Invocation("timer", p, None, 0, "Auth timeout", 0, Some(sessions[p]), FALSE)
       ELSE /\ UNCHANGED <<closes, conn>>
            /\ last' = Invocation("timer", p, None, 0, "", 0, Some(sessions[p]), FALSE)
    /\ UNCHANGED <<keyring, context, sessions, sent, nmsg>>

\* The setTimeout callback of open(), live.ws.ts:99-103
TimerFire(p) ==
    /\ timer[p] = "pending"
    /\ timer' = [timer EXCEPT ![p] = "fired"]
    /\ IF sessions[p].auth.state # "authorized"
       THEN /\ closes' = [closes EXCEPT ![p] = Append(@, CloseCall("Auth timeout"))]
            /\ conn' = [conn EXCEPT ![p] = AfterCloseCalls(@, <<CloseCall("Auth timeout")>>)]
            /\ last' = Invocation("timer", p, None, 0, "Auth timeout", 0, Some(sessions[p]), FALSE)
       ELSE /\ UNCHANGED <<closes, conn>>
            /\ last' = Invocation("timer", p, None, 0, "", 0, Some(sessions[p]), FALSE)
    /\ UNCHANGED <<keyring, context, sessions, sent, nmsg>>

\* Variant: close() removes the session and leaves the timer alone
CloseKeepsTimer(p) ==
    /\ conn[p] \in {"open", "closing", "closed"}
    /\ conn' = [conn EXCEPT ![p] = "closed"]
    /\ IF ~HasSession(p)
       THEN /\ UNCHANGED sessions
            /\ last' = Invocation("close", p, None, 0, "no session", 0, None, FALSE)
       ELSE /\ sessions' = Without(p)
            /\ last' = Invocation("close", p, None, 0, "deleted", 0, Some(sessions[p]), FALSE)
    /\ UNCHANGED <<keyring, context, sent, closes, nmsg, timer>>

\* close(peer), live.ws.ts:297-309, run by the transport when the
\* connection has closed: after a close call of the server, or because the
\* client closed it.  A transport may deliver the callback again for a
\* connection that is already closed.
Close(p) ==
    /\ conn[p] \in {"open", "closing", "closed"}
    /\ conn' = [conn EXCEPT ![p] = "closed"]
    /\ IF ~HasSession(p)
       THEN /\ UNCHANGED <<sessions, timer>>
            /\ last' = Invocation("close", p, None, 0, "no session", 0, None, FALSE)
       ELSE /\ timer' = [timer EXCEPT ![p] =
                            IF sessions[p].auth.handshakeTimer /\ @ = "pending"
                            THEN "cleared" ELSE @]
            /\ sessions' = Without(p)
            /\ last' = Invocation("close", p, None, 0, "deleted", 0, Some(sessions[p]), FALSE)
    /\ UNCHANGED <<keyring, context, sent, closes, nmsg>>

Next(peers, nonces, msgs, clock, faults, maxMsgs) ==
    \/ \E p \in peers, n \in nonces, f \in faults : Open(p, n, f)
    \/ \E p \in peers, m \in msgs, t \in clock, f \in faults :
          Message(p, m, t, f, maxMsgs)
    \/ \E p \in peers : TimerFire(p)
    \/ \E p \in peers : Close(p)

----------------------------------------------------------------------------
(* Inputs: keyrings, nonces, clock readings and client messages *)

KeyA == "kA"
KeyB == "kB"
KeyX == "kX"    \* a key that is in no keyring
AllKeys == {KeyA, KeyB, KeyX}
Versions == {"gd-2.206", "gd-2.207", ""}
Nonces == {"n1", "n2"}

\* buildKeyring() results: entries in insertion order, versions distinct
\* (they are the keys of a Map), every key 32 bytes
KeyringEntries == [version : Versions, key : {KeyA, KeyB}]
Keyrings ==
    {kr \in UNION {[1..n -> KeyringEntries] : n \in 0..MaxKeys} :
        \A i, j \in 1..Len(kr) : i # j => kr[i].version # kr[j].version}
OneKeyring == {<<[version |-> "gd-2.206", key |-> KeyA]>>}

\* Date.now() readings, in steps of half the time in which the allowed
\* percent grows by one
ClockValues == {((MsPerSecond \div maxPctPerSecond) \div 2) * k : k \in 0..MaxTicks}

Str(bytes) == [empty |-> FALSE, bytes |-> bytes]
EmptyStr == [empty |-> TRUE, bytes |-> 0]
Blob(plain) == [empty |-> FALSE, plain |-> plain]

NoncePlain(n) == [json |-> TRUE, nonce |-> Some(n)]
NotJson == [json |-> FALSE, nonce |-> None]
NoNonceJson == [json |-> TRUE, nonce |-> None]

EmptyObj ==
    [isObj |-> TRUE, cmd |-> None, payload |-> None, iv |-> None, data |-> None,
     ciphertext |-> None, tag |-> None, alg |-> None, seq |-> None,
     current_pct |-> None, frames |-> None]
NonObj == [EmptyObj EXCEPT !.isObj = FALSE]
Ping == [EmptyObj EXCEPT !.cmd = Some("ping")]

\* A flat AES-256-GCM auth response whose ciphertext decrypts as plain says
GcmEnvelope(plain) ==
    [EmptyObj EXCEPT !.cmd = Some("auth_response"),
                     !.iv = Some(Str(GcmIvMinBytes)), !.tag = Some(Str(GcmTagBytes)),
                     !.alg = Some("aes-256-gcm"), !.data = Some(Blob(plain))]
\* A flat AES-256-CBC auth response: no tag, no alg
CbcEnvelope(plain) ==
    [EmptyObj EXCEPT !.iv = Some(Str(CbcIvBytes)), !.ciphertext = Some(Blob(plain))]
\* The same envelope wrapped: {cmd: "auth_response", payload: {...}}
Wrapped(env) ==
    [EmptyObj EXCEPT !.cmd = Some("auth_response"),
                     !.payload = Some([isObj |-> TRUE, iv |-> env.iv, data |-> env.data,
                                       ciphertext |-> env.ciphertext, tag |-> env.tag,
                                       alg |-> env.alg])]

\* What a ciphertext yields under each key: the cipher raises, or a payload
\* with one of the nonces
NonceOutcomes == {None} \cup {Some(NoncePlain(n)) : n \in Nonces}
NoncePlains == [AllKeys -> NonceOutcomes]
OnlyUnder(k, pt) == [j \in AllKeys |-> IF j = k THEN Some(pt) ELSE None]

Frame(x, y) == [isObj |-> TRUE, x |-> x, y |-> y]
Num(v) == [t |-> "num", v |-> v]
Undef == [t |-> "undef", v |-> 0]
NonNumber == [t |-> "other", v |-> 0]
NonObjFrame == [isObj |-> FALSE, x |-> Undef, y |-> Undef]
Frames(pad, list) == [pad |-> pad, list |-> list]
NoFrames == Frames(0, <<>>)

Telemetry(seq, pct, frames) ==
    [EmptyObj EXCEPT !.seq = Some(seq), !.current_pct = Some(pct),
                     !.frames = Some(frames)]

Raw(d) == [size |-> 64, parses |-> TRUE, data |-> d]
Sized(n, d) == [size |-> n, parses |-> TRUE, data |-> d]
InvalidJson == [size |-> 64, parses |-> FALSE, data |-> NonObj]

----------------------------------------------------------------------------
(* Specifications *)

NoFaults == {FALSE}

\* A GCM auth response that only KeyA decrypts, to the payload {nonce: n}
AuthResponse(n) == Raw(GcmEnvelope(OnlyUnder(KeyA, NoncePlain(n))))

\* Two connections, the whole lifecycle, a small message vocabulary
Msgs ==
    {AuthResponse(n) : n \in Nonces}
        \cup {Raw(Ping), Raw(Telemetry(1, 0, NoFrames))}
Spec ==
    Init({<<>>} \cup OneKeyring)
        /\ [][Next(Peers, Nonces, Msgs, {0}, NoFaults, MaxMsgs)]_vars

\* One connection, every keyring, every way an envelope can decrypt
AuthMsgs ==
    {Raw(GcmEnvelope(pl)) : pl \in NoncePlains}
        \cup {Raw(CbcEnvelope(OnlyUnder(KeyA, pt))) :
                 pt \in {NotJson, NoNonceJson, NoncePlain(""), NoncePlain("n1")}}
        \cup {Raw(GcmEnvelope([k \in AllKeys |->
                 IF k = KeyA THEN Some(NotJson) ELSE Some(NoncePlain("n1"))])),
              Raw(Wrapped(GcmEnvelope(OnlyUnder(KeyB, NoncePlain("n1"))))),
              Raw(Ping), Sized(maxMessageBytes, Ping), Sized(maxMessageBytes + 1, Ping),
              Raw(NonObj), InvalidJson, Raw(Telemetry(1, 0, NoFrames))}
SpecAuth ==
    Init(Keyrings) /\ [][Next({1}, {"n1"}, AuthMsgs, {0}, NoFaults, MaxAuthMsgs)]_vars

\* One authorized connection, telemetry that varies seq over time
SeqMsgs ==
    {AuthResponse("n1")}
        \cup {Raw(Telemetry(q, 0, NoFrames)) : q \in 0..MaxSeq}
SpecSeq ==
    Init(OneKeyring)
        /\ [][Next({1}, {"n1"}, SeqMsgs, ClockValues, NoFaults, MaxSeq + 1)]_vars

\* One authorized connection, two telemetry messages that vary percent
\* and time
PctValues == 0..(maxPctBurst + MaxPctSteps)
RateMsgs ==
    {AuthResponse("n1")}
        \cup {Raw(Telemetry(q, c, NoFrames)) : q \in 1..2, c \in PctValues}
SpecRate ==
    Init(OneKeyring)
        /\ [][Next({1}, {"n1"}, RateMsgs, ClockValues, NoFaults, MaxMsgs)]_vars

\* One connection whose client answers the challenge and then sends two
\* correctly numbered batches: a first one of at most one frame, which sets
\* the coordinate baseline, and a second one of up to MaxFrames frames.
CoordValues ==
    {0, maxCoordDelta, maxCoordDelta + 1, maxAbsCoord, maxAbsCoord + 1,
     -maxAbsCoord, -(maxAbsCoord + 1)}
FrameValues ==
    {Frame(Num(v), Num(0)) : v \in CoordValues}
        \cup {Frame(Num(0), Num(v)) : v \in CoordValues}
        \cup {Frame(Undef, Num(maxAbsCoord + 1)), Frame(Num(0), NonNumber), NonObjFrame}
FrameLists(len) == UNION {[1..n -> FrameValues] : n \in 0..len}
CoordMsgs(p) ==
    IF ~HasSession(p) THEN {}
    ELSE IF sessions[p].auth.state # "authorized" THEN {AuthResponse("n1")}
    ELSE LET q == sessions[p].telemetry.expectedSeq IN
         {Raw(Telemetry(q, 0, Frames(0, fl))) :
             fl \in IF q = 1 THEN FrameLists(1)
                    ELSE IF q = 2 THEN FrameLists(MaxFrames) ELSE {}}
CoordClock == {0, MsPerSecond}
NextCoord ==
    \/ Open(1, "n1", FALSE)
    \/ \E m \in CoordMsgs(1), t \in CoordClock : Message(1, m, t, FALSE, MaxMsgs)
    \/ TimerFire(1)
    \/ Close(1)
SpecCoord == Init(OneKeyring) /\ [][NextCoord]_vars

\* One connection on a transport whose peer.send may raise
Faults == BOOLEAN
FaultMsgs ==
    {AuthResponse("n1"), Raw(Ping), InvalidJson, Sized(maxMessageBytes + 1, Ping),
     Raw(Telemetry(1, 0, NoFrames)), Raw(Telemetry(2, 0, NoFrames))}
SpecFault ==
    Init(OneKeyring) /\ [][Next({1}, {"n1"}, FaultMsgs, {0}, Faults, MaxMsgs)]_vars

\* One connection under a fair timer and a transport that completes every
\* close it was asked for: a pending setTimeout callback runs unless it is
\* cleared, and close() runs after peer.close().
LiveMsgs == {AuthResponse(n) : n \in Nonces} \cup {Raw(Ping), Raw(NonObj)}
ClosingCompletes(p) == conn[p] = "closing" /\ Close(p)
SpecLive ==
    /\ Init({<<>>} \cup OneKeyring)
    /\ [][Next({1}, {"n1"}, LiveMsgs, {0}, NoFaults, MaxMsgs)]_vars
    /\ WF_vars(TimerFire(1))
    /\ WF_vars(ClosingCompletes(1))

\* One connection, every keyring, envelopes that fail in each way the codec
\* can fail: GCM tag or IV of a wrong length, CBC IV of a wrong length, a
\* ciphertext no keyring key authenticates, plaintext that is no valid
\* payload; and envelopes with both, neither or an empty ciphertext field
\* or without a usable iv.
\* An envelope that is a telemetry message as well: both schemas let
\* unknown fields through, and the handshake does not look at cmd
WithTelemetry(env) ==
    [env EXCEPT !.cmd = Some("telemetry"), !.seq = Some(1),
                !.current_pct = Some(0), !.frames = Some(NoFrames)]
AllKeysYield(n) == [k \in AllKeys |-> Some(NoncePlain(n))]
EnvelopeMsgs ==
    {Raw([GcmEnvelope(AllKeysYield("n1")) EXCEPT !.tag = Some(Str(b))]) :
        b \in {GcmTagBytes - 1, GcmTagBytes + 1}}
        \cup {Raw([GcmEnvelope(AllKeysYield("n1")) EXCEPT !.iv = Some(Str(b))]) :
                 b \in {GcmIvMinBytes - 1, GcmIvMaxBytes, GcmIvMaxBytes + 1}}
        \cup {Raw([CbcEnvelope(AllKeysYield("n1")) EXCEPT !.iv = Some(Str(b))]) :
                 b \in {CbcIvBytes - 1, CbcIvBytes + 1}}
        \cup {Raw([GcmEnvelope(AllKeysYield("n1")) EXCEPT !.tag = None]),
              Raw([CbcEnvelope(AllKeysYield("n1")) EXCEPT !.alg = Some("AES-256-GCM")])}
        \cup {Raw(GcmEnvelope(pl)) :
                 pl \in {OnlyUnder(KeyX, NoncePlain("n1")),
                         OnlyUnder(KeyA, NoncePlain("n1")),
                         OnlyUnder(KeyB, NoncePlain("n2")),
                         [k \in AllKeys |-> IF k = KeyA THEN Some(NotJson) ELSE None],
                         [k \in AllKeys |-> IF k = KeyA THEN None ELSE Some(NoNonceJson)],
                         [k \in AllKeys |-> Some(NoncePlain(""))]}}
        \cup {Raw([GcmEnvelope(OnlyUnder(KeyA, NoncePlain("n1")))
                      EXCEPT !.ciphertext = Some(Blob(OnlyUnder(KeyA, NoncePlain("n2"))))]),
              Raw([GcmEnvelope(AllKeysYield("n1")) EXCEPT !.data = None]),
              Raw([GcmEnvelope(AllKeysYield("n1")) EXCEPT !.data = Some(EmptyStr)]),
              Raw([CbcEnvelope(AllKeysYield("n1")) EXCEPT !.ciphertext = Some(EmptyStr)]),
              Raw([GcmEnvelope(AllKeysYield("n1")) EXCEPT !.iv = None]),
              Raw([GcmEnvelope(AllKeysYield("n1")) EXCEPT !.iv = Some(EmptyStr)]),
              Raw(Wrapped([GcmEnvelope(AllKeysYield("n1")) EXCEPT !.data = None])),
              Raw(CbcEnvelope(AllKeysYield("n1")))}
        \cup {Raw(Telemetry(1, 0, NoFrames)),
              Raw(WithTelemetry(GcmEnvelope(OnlyUnder(KeyA, NoncePlain("n1"))))),
              Raw(WithTelemetry(GcmEnvelope(OnlyUnder(KeyA, NoncePlain("n2")))))}
SpecEnvelope ==
    Init(Keyrings)
        /\ [][Next({1}, {"n1"}, EnvelopeMsgs, {0}, NoFaults, MaxAuthMsgs)]_vars

----------------------------------------------------------------------------
(* Reading the invocation record *)

LastMsg == Get(last.msg)
LastPre == Get(last.pre)
LastPeer == last.peer

\* The last step was message() with a session in the store, on a message
\* within the size limit that parsed as JSON and is no ping
HandledData ==
    /\ last.op = "message" /\ IsSome(last.pre)
    /\ LastMsg.size <= maxMessageBytes /\ LastMsg.parses
    /\ ~IsPing(LastMsg.data)

\* ... and the session was Challenging and the message holds a
\* structurally valid envelope
HandledEnvelope ==
    /\ HandledData
    /\ LastPre.auth.state = "challenging"
    /\ parseAuthEnvelopeOk(EnvelopeCandidate(LastMsg.data))

\* The nonce keyring entry i turns the last message's envelope into
\* (None: the key does not yield a well-formed payload)
NonceUnder(i) == TryKey(EnvelopeCandidate(LastMsg.data), keyring[i].key)

\* The nonces sent to p in an auth_challenge
Issued(p) ==
    {sent[p][k].arg : k \in {j \in 1..Len(sent[p]) : sent[p][j].cmd = "auth_challenge"}}

SentCmds(p) == {sent[p][k].cmd : k \in 1..Len(sent[p])}
CloseReasons(p) == {closes[p][k].reason : k \in 1..Len(closes[p])}
IsAuthorized(p) == HasSession(p) /\ sessions[p].auth.state = "authorized"

----------------------------------------------------------------------------
(* C1.  Authorization soundness: a session becomes Authorized only in a    *)
(* message() step of its own connection whose envelope some keyring entry  *)
(* decrypts to a well-formed payload carrying the nonce issued to that     *)
(* session, and the version recorded is that entry's version.  No envelope *)
(* that yields the nonce only under keys outside the keyring authorizes.   *)
C1_AuthorizationSound ==
    [][\A p \in Peers :
        (IsAuthorized(p)' /\ ~IsAuthorized(p)) =>
            /\ HasSession(p) /\ last'.op = "message" /\ last'.peer = p
            /\ sessions'[p].auth.nonce \in Issued(p)
            /\ \E i \in 1..Len(keyring) :
                  /\ TryKey(EnvelopeCandidate(Get(last'.msg).data), keyring[i].key)
                        = Some(sessions'[p].auth.nonce)
                  /\ sessions'[p].auth.version = Some(keyring[i].version)]_vars

\* C1 witness: a session authorized under the second keyring entry by an
\* envelope that a key outside the keyring also decrypts
C1_Witness ==
    /\ last.op = "message" /\ last.res = "auth_ok" /\ IsAuthorized(LastPeer)
    /\ Len(keyring) = 2
    /\ sessions[LastPeer].auth.version = Some(keyring[2].version)
    /\ IsSome(EnvelopeCandidate(LastMsg.data).data)
    /\ IsSome(Get(EnvelopeCandidate(LastMsg.data).data).plain[KeyX])
    /\ "auth_ok" \in SentCmds(LastPeer)

----------------------------------------------------------------------------
(* C2 as stated: if any keyring entry decrypts a structurally valid        *)
(* envelope, received while Challenging, to a well-formed payload with a   *)
(* nonce other than the issued one, the message rejects the session:       *)
(* connection closed, state still Challenging, no auth_ok.                 *)
Rejected ==
    /\ closes[LastPeer] # <<>>
    /\ sessions[LastPeer].auth.state = "challenging"
    /\ "auth_ok" \notin SentCmds(LastPeer)
    /\ conn[LastPeer] # "open"

C2_AnyMismatchRejects ==
    (/\ HandledEnvelope
     /\ \E i \in 1..Len(keyring) :
           IsSome(NonceUnder(i)) /\ Get(NonceUnder(i)) # LastPre.auth.nonce)
        => Rejected

(* C2 amended: the first keyring entry, in keyring order, that decrypts    *)
(* the envelope to a well-formed payload decides.  If that payload's nonce *)
(* differs from the issued nonce the message rejects the session with the  *)
(* nonce-mismatch reason, whatever the later entries do with the envelope. *)
C2_FirstDecryptingKeyDecides ==
    (/\ HandledEnvelope
     /\ \E i \in 1..Len(keyring) :
           /\ IsSome(NonceUnder(i)) /\ Get(NonceUnder(i)) # LastPre.auth.nonce
           /\ \A j \in 1..(i - 1) : ~IsSome(NonceUnder(j)))
        => /\ Rejected
           /\ last.res = "Nonce mismatch"
           /\ closes[LastPeer][Len(closes[LastPeer])] = CloseCall("Nonce mismatch")
           /\ sessions[LastPeer] = LastPre

\* C2 witness: rejected for a nonce mismatch under the first entry although
\* the second entry decrypts the envelope to the issued nonce
C2_Witness ==
    /\ HandledEnvelope /\ last.res = "Nonce mismatch"
    /\ Len(keyring) = 2
    /\ IsSome(NonceUnder(1)) /\ Get(NonceUnder(1)) # LastPre.auth.nonce
    /\ NonceUnder(2) = Some(LastPre.auth.nonce)

----------------------------------------------------------------------------
(* C8.  Empty keyring refuses everything: with no keyring entry, every     *)
(* opened connection has the misconfiguration close as its first close     *)
(* call, made by open() itself (the connection is never left open), no     *)
(* auth_challenge is sent on it and its session never becomes Authorized,  *)
(* whatever the client sends afterwards.                                   *)
C8_EmptyKeyringRefuses ==
    Len(keyring) = 0 =>
        \A p \in Peers :
            conn[p] # "idle" =>
                /\ conn[p] # "open"
                /\ closes[p] # <<>>
                /\ closes[p][1] = CloseCall("Server misconfigured")
                /\ "auth_challenge" \notin SentCmds(p)
                /\ "auth_ok" \notin SentCmds(p)
                /\ ~IsAuthorized(p)

\* C8 witness: with the empty keyring, a refused connection then receives
\* an envelope that KeyA decrypts to the session's nonce, and is rejected
C8_Witness ==
    /\ Len(keyring) = 0
    /\ HandledEnvelope
    /\ Len(closes[LastPeer]) = 2
    /\ TryKey(EnvelopeCandidate(LastMsg.data), KeyA) = Some(LastPre.auth.nonce)

----------------------------------------------------------------------------
(* C9.  Ping is side-effect free: message() on a message within the size   *)
(* limit that parses to an object with cmd = "ping" appends exactly one    *)
(* pong to what was sent, in either auth state, and changes nothing else:  *)
(* not the session (auth state, nonce, version, timer handle, expectedSeq, *)
(* baselines), not the runtime timer, not the connection, no close call.   *)
C9_PingNoSideEffect ==
    [][\A p \in Peers :
        (/\ last'.op = "message" /\ last'.peer = p /\ HasSession(p)
         /\ Get(last'.msg).size <= maxMessageBytes /\ Get(last'.msg).parses
         /\ IsPing(Get(last'.msg).data))
        => /\ sent'[p] = Append(sent[p], Msg("pong", ""))
           /\ HasSession(p)' /\ sessions'[p] = sessions[p]
           /\ timer'[p] = timer[p]
           /\ conn'[p] = conn[p]
           /\ closes'[p] = closes[p]
           /\ context'[p] = context[p]]_vars

\* C9 witness: a ping answered while Challenging with the handshake timer
\* pending, on a message of exactly the size limit
C9_Witness ==
    /\ last.op = "message" /\ last.res = "pong"
    /\ LastMsg.size = maxMessageBytes
    /\ sessions[LastPeer].auth.state = "challenging"
    /\ timer[LastPeer] = "pending"
    /\ conn[LastPeer] = "open"
    /\ sent[LastPeer][Len(sent[LastPeer])] = Msg("pong", "")

----------------------------------------------------------------------------
(* C10.  Auth state is one-way: a session's auth state is Challenging or   *)
(* Authorized; it changes only from Challenging to Authorized, only in a   *)
(* message() step that answers auth_ok; an Authorized session stays        *)
(* Authorized under every step (kill, timer, ping, telemetry, another      *)
(* envelope) while it is in the store; a step that makes a close call on a *)
(* Challenging session leaves it Challenging.                              *)
C10_AuthOneWay ==
    [][\A p \in Peers :
        /\ HasSession(p)' =>
              sessions'[p].auth.state \in {"challenging", "authorized"}
        /\ (HasSession(p)' /\ ~HasSession(p)) =>
              sessions'[p].auth.state = "challenging"
        /\ (HasSession(p) /\ HasSession(p)') =>
              /\ sessions[p].auth.state = "authorized"
                    => sessions'[p].auth.state = "authorized"
              /\ sessions'[p].auth.state # sessions[p].auth.state
                    => /\ last'.op = "message" /\ last'.peer = p
                       /\ last'.res = "auth_ok"
                       /\ closes'[p] = closes[p]
              /\ (sessions[p].auth.state = "challenging" /\ closes'[p] # closes[p])
                    => sessions'[p].auth.state = "challenging"]_vars

\* C10 witness: an Authorized session that was killed for a telemetry
\* violation and is still Authorized, next to a rejected handshake on the
\* other connection that is still Challenging
C10_Witness ==
    /\ IsAuthorized(1) /\ "kill" \in SentCmds(1) /\ closes[1] # <<>>
    /\ HasSession(2) /\ sessions[2].auth.state = "challenging"
    /\ "Nonce mismatch" \in CloseReasons(2)

----------------------------------------------------------------------------
(* Reading a telemetry invocation *)

\* The last step was message() on an Authorized session with a telemetry
\* message that passed the schema
HandledTelemetry ==
    /\ HandledData
    /\ LastPre.auth.state = "authorized"
    /\ TelemetrySchemaOk(LastMsg.data)

LastSeq == Get(LastMsg.data.seq)
LastPct == Get(LastMsg.data.current_pct)
LastFrames == Get(LastMsg.data.frames).list
PreTel == LastPre.telemetry
NowTel == sessions[LastPeer].telemetry

\* The kill of the last step: a kill notification as the last message sent
\* and a close call with this reason as the last close call
KilledFor(reason) ==
    /\ last.res = reason
    /\ sent[LastPeer] # <<>>
    /\ sent[LastPeer][Len(sent[LastPeer])] = Msg("kill", "")
    /\ closes[LastPeer] # <<>>
    /\ closes[LastPeer][Len(closes[LastPeer])] = CloseCall(reason)

----------------------------------------------------------------------------
(* C3.  Sequence strictness: a new session expects seq 1; a structurally    *)
(* valid telemetry message to an Authorized session is killed for a        *)
(* sequence mismatch if and only if its seq differs from expectedSeq, and  *)
(* then expectedSeq is left as it was; a message with the expected seq     *)
(* advances expectedSeq by exactly one.  Hence 1,2,3 pass in order, and    *)
(* 1,3 and 1,1 and 2,... are killed at the first offending message.        *)
C3_SequenceStrict ==
    /\ last.op = "open" => sessions[LastPeer].telemetry.expectedSeq = 1
    /\ HandledTelemetry =>
          /\ KilledFor("Sequence mismatch") <=> LastSeq # PreTel.expectedSeq
          /\ last.res = "Sequence mismatch" => sessions[LastPeer] = LastPre
          /\ last.res # "Sequence mismatch" => NowTel.expectedSeq = PreTel.expectedSeq + 1

\* C3 witness: after 1 and 2 were accepted, 3 is accepted with nothing
\* killed on the way
C3_Witness ==
    /\ HandledTelemetry /\ last.res = "accepted"
    /\ LastSeq = 3 /\ NowTel.expectedSeq = 4
    /\ closes[LastPeer] = <<>>

----------------------------------------------------------------------------
(* C4 as stated: a telemetry message with the expected seq whose percent   *)
(* is lower than the last accepted percent is never killed by the          *)
(* progress-rate step (elapsed-time kill or speedhack kill), for every     *)
(* elapsed time including zero and negative ones.                          *)
C4_DropNeverKilled ==
    (/\ HandledTelemetry /\ LastSeq = PreTel.expectedSeq
     /\ IsSome(PreTel.lastAt) /\ IsSome(PreTel.lastPct)
     /\ LastPct < Get(PreTel.lastPct))
        => last.res \notin {"Invalid time delta", "Speedhack (pct jump)"}

(* C4 amended: such a message is never killed by the progress-rate step    *)
(* when the elapsed time since the last accepted message is positive; when *)
(* it is zero or negative the message is killed for an invalid time delta, *)
(* whatever its percent.                                                   *)
C4_DropAcceptedWhenTimeAdvanced ==
    (/\ HandledTelemetry /\ LastSeq = PreTel.expectedSeq
     /\ IsSome(PreTel.lastAt) /\ IsSome(PreTel.lastPct))
        => /\ (LastPct < Get(PreTel.lastPct) /\ last.now - Get(PreTel.lastAt) > 0)
                 => /\ last.res \notin {"Invalid time delta", "Speedhack (pct jump)"}
                    /\ NowTel.lastPct = Some(LastPct)
           /\ last.now - Get(PreTel.lastAt) <= 0 => KilledFor("Invalid time delta")

\* C4 witness: the percent drops by more than the allowance and the message
\* is accepted
C4_Witness ==
    /\ HandledTelemetry /\ last.res = "accepted"
    /\ IsSome(PreTel.lastPct) /\ IsSome(PreTel.lastAt)
    /\ last.now - Get(PreTel.lastAt) > 0
    /\ (Get(PreTel.lastPct) - LastPct) * 1000
          > 5 * 1000 + 20 * (last.now - Get(PreTel.lastAt))

----------------------------------------------------------------------------
(* C5.  Progress-rate boundary: a telemetry message with the expected seq, *)
(* after an accepted one, with elapsed time dt > 0 ms and a percent        *)
(* increase d > 0, is killed as a speedhack if and only if                 *)
(* d > 5 + 20 * dt / 1000, and otherwise passes the rate step; the first   *)
(* telemetry message of a session is never killed by the rate step.        *)
C5_RateBoundary ==
    (HandledTelemetry /\ LastSeq = PreTel.expectedSeq) =>
        /\ ~IsSome(PreTel.lastAt) =>
              /\ last.res \notin {"Invalid time delta", "Speedhack (pct jump)"}
              /\ NowTel.lastPct = Some(LastPct)
        /\ (/\ IsSome(PreTel.lastAt) /\ IsSome(PreTel.lastPct)
            /\ last.now - Get(PreTel.lastAt) > 0
            /\ LastPct - Get(PreTel.lastPct) > 0)
              => LET dt == last.now - Get(PreTel.lastAt)
                     d == LastPct - Get(PreTel.lastPct)
                 IN  /\ KilledFor("Speedhack (pct jump)") <=> d * 1000 > 5 * 1000 + 20 * dt
                     /\ d * 1000 <= 5 * 1000 + 20 * dt =>
                           /\ last.res \notin {"Invalid time delta", "Speedhack (pct jump)"}
                           /\ NowTel.lastPct = Some(LastPct)

\* C5 witness: an increase exactly equal to the allowance is accepted
C5_Witness ==
    /\ HandledTelemetry /\ last.res = "accepted"
    /\ IsSome(PreTel.lastPct) /\ IsSome(PreTel.lastAt)
    /\ last.now - Get(PreTel.lastAt) > 0
    /\ (LastPct - Get(PreTel.lastPct)) * 1000
          = 5 * 1000 + 20 * (last.now - Get(PreTel.lastAt))

----------------------------------------------------------------------------
(* Reading the per-frame loop of a telemetry invocation *)

\* The last step reached the per-frame loop
HandledFrames ==
    /\ HandledTelemetry
    /\ last.res \in {"accepted", "Invalid coordinates", "Impossible coordinates",
                     "Impossible movement"}

\* Frame i was looked at: the loop was not killed before it
Reached(i) == last.at = 0 \/ i <= last.at

\* The frame carries both x and y as finite numbers
BothNumbers(f) == f.isObj /\ f.x.t = "num" /\ f.y.t = "num"

\* The frames before index i that carry both coordinates
EarlierWithBoth(i) == {j \in 1..(i - 1) : BothNumbers(LastFrames[j])}
Latest(js) == CHOOSE j \in js : \A k \in js : k <= j

\* The most recent frame before frame i of this batch that carried both
\* coordinates, else the baseline the batch started with
RunningBaseline(i) ==
    IF EarlierWithBoth(i) = {} THEN PreTel.lastCoord
    ELSE LET f == LastFrames[Latest(EarlierWithBoth(i))]
         IN  Some([x |-> f.x.v, y |-> f.y.v])

----------------------------------------------------------------------------
(* C6.  Coordinate magnitude bound is inclusive: a frame the loop looks at *)
(* that carries both x and y as finite numbers is killed for impossible    *)
(* coordinates if and only if |x| > 10,000,000 or |y| > 10,000,000; a      *)
(* coordinate of absolute value 10,000,000 passes on either axis with      *)
(* either sign.                                                            *)
C6_CoordinateBoundInclusive ==
    HandledFrames =>
        \A i \in 1..Len(LastFrames) :
            (Reached(i) /\ BothNumbers(LastFrames[i])) =>
                ((KilledFor("Impossible coordinates") /\ last.at = i)
                    <=> \/ Abs(LastFrames[i].x.v) > 10000000
                        \/ Abs(LastFrames[i].y.v) > 10000000)

\* C6 witness: an accepted batch with a frame at y = -10,000,000 after a
\* baseline at y = -10,000,000
C6_Witness ==
    /\ HandledFrames /\ last.res = "accepted"
    /\ \E i \in 1..Len(LastFrames) :
          BothNumbers(LastFrames[i]) /\ LastFrames[i].y.v = -10000000
    /\ IsSome(PreTel.lastCoord)

----------------------------------------------------------------------------
(* C7.  Coordinate delta against a running baseline: a frame the loop      *)
(* looks at that carries both coordinates within the magnitude bound is    *)
(* compared with the most recent earlier frame of the batch that carried   *)
(* both coordinates, else with the baseline left by earlier batches; it is *)
(* killed for impossible movement if and only if such a baseline exists    *)
(* and the absolute delta on some axis exceeds 20,000.  Frames without     *)
(* both coordinates leave the baseline alone; after the loop the baseline  *)
(* is the last frame with both coordinates that was not killed.            *)
C7_RunningBaselineDelta ==
    HandledFrames =>
        /\ \A i \in 1..Len(LastFrames) :
              (/\ Reached(i) /\ BothNumbers(LastFrames[i])
               /\ Abs(LastFrames[i].x.v) <= 10000000
               /\ Abs(LastFrames[i].y.v) <= 10000000)
                 => ((KilledFor("Impossible movement") /\ last.at = i)
                       <=> /\ IsSome(RunningBaseline(i))
                           /\ \/ Abs(LastFrames[i].x.v - Get(RunningBaseline(i)).x) > 20000
                              \/ Abs(LastFrames[i].y.v - Get(RunningBaseline(i)).y) > 20000)
        /\ NowTel.lastCoord =
              RunningBaseline(IF last.at = 0 THEN Len(LastFrames) + 1 ELSE last.at)

\* C7 witness: after a batch that left the baseline (0,0), a batch with the
\* frames (20000,0) and (20001,0) is accepted
C7_Witness ==
    /\ HandledFrames /\ last.res = "accepted"
    /\ PreTel.lastCoord = Some([x |-> 0, y |-> 0])
    /\ Len(LastFrames) = 2
    /\ LastFrames[1] = Frame(Num(20000), Num(0))
    /\ LastFrames[2] = Frame(Num(20001), Num(0))

----------------------------------------------------------------------------
(* C11.  Kill always closes: whenever message() takes the kill path for a  *)
(* violation, the connection is closed with the policy-violation code and  *)
(* the reason of the violation, also when sending the kill notification    *)
(* raises.                                                                 *)
KillReasons ==
    {"Message too large", "Invalid JSON", "Bad telemetry", "Sequence mismatch",
     "Invalid time delta", "Speedhack (pct jump)", "Too many frames",
     "Invalid coordinates", "Impossible coordinates", "Impossible movement"}

\* The last step was message() leaving by the kill path
TookKillPath == last.op = "message" /\ IsSome(last.pre) /\ last.res \in KillReasons

C11_KillAlwaysCloses ==
    TookKillPath =>
        /\ closes[LastPeer] # <<>>
        /\ closes[LastPeer][Len(closes[LastPeer])] = CloseCall(last.res)
        /\ conn[LastPeer] # "open"

----------------------------------------------------------------------------
(* C12.  Close cleanup, once, on every path: after close() has run for a   *)
(* connection, whichever path closed it, its session is absent from the    *)
(* store and its handshake timer is not pending; the removal happens in    *)
(* one close() step, taken while the connection was not yet closed; and    *)
(* any later step for a closed connection (a second close callback; the    *)
(* timer cannot fire any more) leaves store, timer, messages sent, close   *)
(* calls and context as they were.                                         *)
C12_CloseCleanupOnce ==
    [][\A p \in Peers :
        /\ conn'[p] = "closed" => (p \notin DOMAIN sessions' /\ timer'[p] # "pending")
        /\ conn[p] = "closed" =>
              /\ conn'[p] = "closed" /\ p \notin DOMAIN sessions'
              /\ timer'[p] = timer[p] /\ sent'[p] = sent[p]
              /\ closes'[p] = closes[p] /\ context'[p] = context[p]
        /\ (last'.op = "close" /\ last'.peer = p /\ last'.res = "deleted") =>
              /\ conn[p] # "closed" /\ HasSession(p)
              /\ sessions' = Without(p)]_vars

\* C12 witness: a second close callback on a connection that was closed for
\* the handshake timeout, while the other connection still has its session
C12_Witness ==
    /\ last.op = "close" /\ last.res = "no session"
    /\ conn[LastPeer] = "closed" /\ ~HasSession(LastPeer)
    /\ "Auth timeout" \in CloseReasons(LastPeer) /\ timer[LastPeer] = "fired"
    /\ \E q \in Peers \ {LastPeer} : HasSession(q)

----------------------------------------------------------------------------
(* C13.  Handshake deadline, under a fair timer: a timer that fires while  *)
(* its session is not Authorized closes the connection with the timeout    *)
(* reason; every session that is Challenging is eventually authorized,     *)
(* removed by a close, or closed for the timeout; and no session stays     *)
(* Challenging in the store forever.  Pings and rejected messages on a     *)
(* connection that is still closing do not keep the timer from firing.     *)
Challenging(p) == HasSession(p) /\ sessions[p].auth.state = "challenging"

C13_HandshakeDeadline ==
    /\ [][(timer[1] = "pending" /\ timer'[1] = "fired" /\ Challenging(1)) =>
             /\ closes'[1] = Append(closes[1], CloseCall("Auth timeout"))
             /\ conn'[1] # "open"]_vars
    /\ Challenging(1) ~>
          (~HasSession(1) \/ IsAuthorized(1) \/ "Auth timeout" \in CloseReasons(1))
    /\ Challenging(1) ~> ~Challenging(1)

\* C13 witness: the timer closes a Challenging session that answered a ping
\* and had a handshake message rejected whose close is not yet delivered
C13_Witness ==
    /\ last.op = "timer" /\ last.res = "Auth timeout" /\ LastPeer = 1
    /\ Challenging(1) /\ "pong" \in SentCmds(1)
    /\ Len(closes[1]) = 2 /\ closes[1][1].reason = "Nonce mismatch"
    /\ closes[1][2] = CloseCall("Auth timeout")

----------------------------------------------------------------------------
(* C14.  A rejected telemetry message never advances the progress          *)
(* baseline: when message() kills an Authorized session's connection at    *)
(* any step, lastAt and lastPct after the handler equal their values       *)
(* before it; they change only in a step that accepted the whole message.  *)
C14_RejectedKeepsBaseline ==
    (/\ last.op = "message" /\ IsSome(last.pre) /\ HasSession(LastPeer)
     /\ LastPre.auth.state = "authorized")
        => /\ TookKillPath =>
                 /\ NowTel.lastAt = PreTel.lastAt
                 /\ NowTel.lastPct = PreTel.lastPct
           /\ (NowTel.lastAt # PreTel.lastAt \/ NowTel.lastPct # PreTel.lastPct)
                 => last.res = "accepted"

----------------------------------------------------------------------------
(* C15.  expectedSeq counts accepted messages only: it starts at 1, every  *)
(* step that accepted a telemetry message of the session raises it by one, *)
(* and no other step changes it; in particular a message killed at a step  *)
(* after the sequence check leaves it as it was.                           *)
C15_SeqCountsAccepted ==
    [][\A p \in Peers :
        /\ (~HasSession(p) /\ p \in DOMAIN sessions') =>
              sessions'[p].telemetry.expectedSeq = 1
        /\ (HasSession(p) /\ p \in DOMAIN sessions') =>
              sessions'[p].telemetry.expectedSeq =
                  sessions[p].telemetry.expectedSeq
                      + (IF last'.op = "message" /\ last'.peer = p
                            /\ last'.res = "accepted" THEN 1 ELSE 0)]_vars

----------------------------------------------------------------------------
(* C16.  Anti-oracle rejection: when a Challenging session of a server     *)
(* with a non-empty keyring receives a structurally valid envelope that no *)
(* keyring key turns into a well-formed payload, what the client sees is   *)
(* the one generic rejection: nothing is sent and the connection is closed *)
(* once with the policy-violation code and the reason "Unauthorized".      *)
(* The outcome is this constant for every keyring, so it is the same for   *)
(* any two keyrings, whatever their length and however each key failed.    *)
NoKeyWorks ==
    /\ HandledEnvelope /\ Len(keyring) > 0
    /\ \A i \in 1..Len(keyring) : ~IsSome(NonceUnder(i))

C16_GenericRejection ==
    [][NoKeyWorks' =>
          /\ sent'[last'.peer] = sent[last'.peer]
          /\ closes'[last'.peer] =
                Append(closes[last'.peer], CloseCall("Unauthorized"))
          /\ sessions'[last'.peer] = sessions[last'.peer]]_vars

\* C16 witness: a two-entry keyring and a GCM envelope with a short tag,
\* whose ciphertext every key would decrypt to the issued nonce
C16_Witness ==
    /\ NoKeyWorks /\ Len(keyring) = 2 /\ last.res = "Unauthorized"
    /\ IsSome(LastMsg.data.tag)
    /\ decodeBase64Like(Get(LastMsg.data.tag)) < GcmTagBytes
    /\ decryptCipher(Get(LastMsg.data.data), keyring[1].key)
          = Some(NoncePlain(LastPre.auth.nonce))

----------------------------------------------------------------------------
(* C17.  Envelope structural validation requires exactly one ciphertext    *)
(* field: a candidate received while Challenging passes the envelope parse *)
(* only when it has a non-empty iv and exactly one of data and ciphertext, *)
(* non-empty; when iv is missing or empty, when neither field is present,  *)
(* and when both are, the handshake rejects with the bad-envelope reason   *)
(* before any key is tried.                                                *)
ExactlyOneCiphertext(c) ==
    /\ c.isObj
    /\ IsSome(c.iv) /\ ~Get(c.iv).empty
    /\ IsSome(c.data) # IsSome(c.ciphertext)
    /\ IsSome(c.data) => ~Get(c.data).empty
    /\ IsSome(c.ciphertext) => ~Get(c.ciphertext).empty

C17_ExactlyOneCiphertextField ==
    (/\ HandledData /\ LastPre.auth.state = "challenging"
     /\ ~ExactlyOneCiphertext(EnvelopeCandidate(LastMsg.data)))
        => /\ last.res = "Bad auth envelope"
           /\ closes[LastPeer][Len(closes[LastPeer])] = CloseCall("Bad auth envelope")
           /\ Challenging(LastPeer)

----------------------------------------------------------------------------
(* C18 as stated: telemetry validation runs only for Authorized sessions.  *)
(* Every Challenging session has expectedSeq 1 and no baseline, and a      *)
(* message of telemetry shape received while Challenging is handled as an  *)
(* auth-response candidate, is rejected, and leaves the telemetry state.   *)
FreshTelemetry ==
    [expectedSeq |-> 1, lastAt |-> None, lastPct |-> None, lastCoord |-> None]
HandshakeRejections == {"Bad auth envelope", "Nonce mismatch", "Unauthorized"}

\* The last step was message() on a message of telemetry shape, not a ping,
\* for a session that was Challenging
TelemetryWhileChallenging ==
    /\ HandledData /\ LastPre.auth.state = "challenging"
    /\ TelemetrySchemaOk(LastMsg.data)

C18_TelemetryWhileChallengingRejected ==
    /\ \A p \in Peers : Challenging(p) => sessions[p].telemetry = FreshTelemetry
    /\ TelemetryWhileChallenging =>
          /\ last.res \in HandshakeRejections
          /\ closes[LastPeer] # <<>>
          /\ closes[LastPeer][Len(closes[LastPeer])] = CloseCall(last.res)
          /\ Challenging(LastPeer)
          /\ NowTel = PreTel

(* C18 amended: every Challenging session has expectedSeq 1 and no         *)
(* baseline.  A message of telemetry shape received while Challenging is   *)
(* handled by the handshake branch only and leaves the telemetry state as  *)
(* it was.  It is rejected with the bad-envelope reason unless it also has *)
(* the fields of a structurally valid envelope; one that has them is       *)
(* treated like any envelope, and authorizes the session when a keyring    *)
(* key decrypts it to the issued nonce.                                    *)
C18_ChallengingNeverValidatesTelemetry ==
    /\ \A p \in Peers : Challenging(p) => sessions[p].telemetry = FreshTelemetry
    /\ TelemetryWhileChallenging =>
          /\ NowTel = PreTel /\ PreTel = FreshTelemetry
          /\ last.res \in HandshakeRejections \cup {"auth_ok"}
          /\ last.res \in HandshakeRejections =>
                /\ Challenging(LastPeer)
                /\ closes[LastPeer][Len(closes[LastPeer])] = CloseCall(last.res)
          /\ ~parseAuthEnvelopeOk(EnvelopeCandidate(LastMsg.data)) =>
                last.res = "Bad auth envelope"
          /\ last.res = "auth_ok" <=>
                /\ parseAuthEnvelopeOk(EnvelopeCandidate(LastMsg.data))
                /\ KeyTrial(EnvelopeCandidate(LastMsg.data), keyring, 1,
                            LastPre.auth.nonce).verdict = "match"
                /\ KeyTrial(EnvelopeCandidate(LastMsg.data), keyring, 1,
                            LastPre.auth.nonce).version # ""

\* C18 witness: a plain telemetry message is rejected as a bad envelope by a
\* Challenging session of a server that has a key
C18_Witness ==
    /\ TelemetryWhileChallenging /\ Len(keyring) > 0
    /\ ~IsSome(LastMsg.data.iv)
    /\ last.res = "Bad auth envelope" /\ Challenging(LastPeer)
    /\ sessions[LastPeer].telemetry = FreshTelemetry

----------------------------------------------------------------------------
(* C19.  Per-connection isolation: a handler step for one connection       *)
(* (open, message, timer callback, close) leaves every other connection's  *)
(* session as it was and present in the store exactly if it was, and       *)
(* leaves the other connection's timer, connection state, messages sent,   *)
(* close calls and context alone; the only store entry that may be added   *)
(* or removed is the one keyed by the acting connection.                   *)
C19_PerConnectionIsolation ==
    [][\A q \in Peers \ {last'.peer} :
        /\ q \in DOMAIN sessions' <=> q \in DOMAIN sessions
        /\ q \in DOMAIN sessions => sessions'[q] = sessions[q]
        /\ timer'[q] = timer[q] /\ conn'[q] = conn[q]
        /\ sent'[q] = sent[q] /\ closes'[q] = closes[q]
        /\ context'[q] = context[q] /\ nmsg'[q] = nmsg[q]]_vars

\* C19 witness: close() removes one connection's session while the other
\* connection is Authorized and has had a telemetry message accepted
C19_Witness ==
    /\ last.op = "close" /\ last.res = "deleted" /\ ~HasSession(LastPeer)
    /\ \E q \in Peers \ {LastPeer} :
          /\ IsAuthorized(q) /\ sessions[q].telemetry.expectedSeq = 2
          /\ timer[q] = "cleared" /\ conn[q] = "open"

----------------------------------------------------------------------------
(* C20.  Timer cancellation on success: an Authorized session has no       *)
(* pending handshake timer and no timer handle; no step makes the timeout  *)
(* close call on a connection whose session is Authorized; and a timer     *)
(* that has fired or was cleared stays as it is, whatever clearTimeout     *)
(* calls follow.                                                           *)
C20_TimerCancelledOnSuccess ==
    [][\A p \in Peers :
        /\ (p \in DOMAIN sessions' /\ sessions'[p].auth.state = "authorized") =>
              /\ timer'[p] # "pending"
              /\ ~sessions'[p].auth.handshakeTimer
        /\ (IsAuthorized(p) /\ closes'[p] # closes[p]) =>
              closes'[p][Len(closes'[p])].reason # "Auth timeout"
        /\ timer[p] \in {"fired", "cleared"} => timer'[p] = timer[p]]_vars

\* C20 witness: the promotion clears a timer that was pending
C20_Witness ==
    /\ last.op = "message" /\ last.res = "auth_ok" /\ IsAuthorized(LastPeer)
    /\ LastPre.auth.handshakeTimer /\ ~sessions[LastPeer].auth.handshakeTimer
    /\ timer[LastPeer] = "cleared"
    /\ "Auth timeout" \notin CloseReasons(LastPeer)

\* The promotion of a session whose timer had already fired: clearTimeout
\* leaves the timer as it is
C20_WitnessClearAfterFire ==
    /\ last.op = "message" /\ last.res = "auth_ok" /\ IsAuthorized(LastPeer)
    /\ LastPre.auth.handshakeTimer /\ timer[LastPeer] = "fired"

----------------------------------------------------------------------------
(* C21.  Rejection is final: once a handler has made a close call for a    *)
(* connection (handshake rejection, nonce mismatch, kill, timeout,         *)
(* empty-keyring refusal), no message handled on that connection before    *)
(* its close callback runs authorizes the session, sends auth_ok, or       *)
(* changes expectedSeq or a telemetry baseline.                            *)
C21_RejectionIsFinal ==
    [][\A p \in Peers :
        (/\ closes[p] # <<>> /\ HasSession(p)
         /\ last'.op = "message" /\ last'.peer = p) =>
            /\ p \in DOMAIN sessions'
            /\ sessions'[p].auth.state = sessions[p].auth.state
            /\ sessions'[p].telemetry = sessions[p].telemetry
            /\ \A k \in (Len(sent[p]) + 1)..Len(sent'[p]) :
                  sent'[p][k].cmd # "auth_ok"]_vars

----------------------------------------------------------------------------
(* C22.  Server message ordering per connection: at most one               *)
(* auth_challenge and at most one auth_ok are sent on a connection; a      *)
(* session in the store is Authorized exactly if an auth_ok was sent on    *)
(* its connection; and a step that sends auth_ok is the step in which the  *)
(* session became Authorized, comes after the auth_challenge of the same   *)
(* connection, carries the version of a keyring entry, and happens on a    *)
(* connection that got no kill notification and no close call before.      *)
RECURSIVE CountCmd(_, _)
CountCmd(msgs, cmd) ==
    IF msgs = <<>> THEN 0
    ELSE (IF Head(msgs).cmd = cmd THEN 1 ELSE 0) + CountCmd(Tail(msgs), cmd)

KeyringVersions == {keyring[i].version : i \in 1..Len(keyring)}

C22_ServerMessageOrdering ==
    [][\A p \in Peers :
        /\ CountCmd(sent'[p], "auth_challenge") <= 1
        /\ CountCmd(sent'[p], "auth_ok") <= 1
        /\ p \in DOMAIN sessions' =>
              (sessions'[p].auth.state = "authorized"
                  <=> CountCmd(sent'[p], "auth_ok") = 1)
        /\ CountCmd(sent'[p], "auth_ok") > CountCmd(sent[p], "auth_ok") =>
              /\ sent'[p] = Append(sent[p], Msg("auth_ok", sent'[p][Len(sent'[p])].arg))
              /\ sent'[p][Len(sent'[p])].arg \in KeyringVersions
              /\ Challenging(p) /\ p \in DOMAIN sessions'
              /\ sessions'[p].auth.state = "authorized"
              /\ CountCmd(sent[p], "auth_challenge") = 1
              /\ CountCmd(sent[p], "kill") = 0
              /\ closes[p] = <<>>]_vars

\* The parts of C22 that do not depend on what came before the auth_ok
C22_OrderingSaveEarlierRejection ==
    [][\A p \in Peers :
        /\ CountCmd(sent'[p], "auth_challenge") <= 1
        /\ CountCmd(sent'[p], "auth_ok") <= 1
        /\ p \in DOMAIN sessions' =>
              (sessions'[p].auth.state = "authorized"
                  <=> CountCmd(sent'[p], "auth_ok") = 1)
        /\ CountCmd(sent'[p], "auth_ok") > CountCmd(sent[p], "auth_ok") =>
              /\ sent'[p][Len(sent'[p])].arg \in KeyringVersions
              /\ Challenging(p) /\ p \in DOMAIN sessions'
              /\ sessions'[p].auth.state = "authorized"
              /\ CountCmd(sent[p], "auth_challenge") = 1]_vars

====
